---- MODULE Spec2Model ----
(***************************************************************************)
(* Cart mutation logic of the Sportswear Shop backend (src/main.py,        *)
(* src/schemas.py): add_to_cart, remove_from_cart, update_quantity over a  *)
(* "cart" collection and a "product" collection of a document store.       *)
(*                                                                         *)
(* Identifier strings.  The handlers receive identifiers as strings and    *)
(* turn them into bson ObjectIds with ObjectId(s); str(oid) turns an       *)
(* ObjectId back into a string.  ObjectId(s) accepts exactly the strings   *)
(* of 24 hexadecimal digits, in either letter case, and str(oid) always    *)
(* gives the lower-case digits.  An identifier string is modelled as a     *)
(* record [kind, oid, form]:                                               *)
(*   kind = "hex"   a 24-hex-digit string denoting ObjectId number oid,    *)
(*                  written in lower case (form = "lower", what str()      *)
(*                  produces) or with upper-case digits (form = "upper");  *)
(*   kind = "bad"   a non-empty string that is not 24 hex digits;          *)
(*   kind = "empty" the empty string "";                                   *)
(*   kind = "none"  Python None (an absent optional field).                *)
(* ObjectId numbers are per collection: product n and cart n are different *)
(* documents.                                                              *)
(***************************************************************************)
EXTENDS Integers, Sequences, FiniteSets, TLC

VARIABLES
    products,   \* the "product" collection: ObjectId number -> document
    carts,      \* the "cart" collection: sequence of documents, index = ObjectId number
    prev,       \* the "cart" collection as it was before the last request
    last,       \* the last request and its response
    nops,       \* number of requests handled so far
    procs,      \* concurrently running requests: slot -> progress of its handler
    stored      \* per cart, every item sequence it has held, oldest first

vars == <<products, carts, prev, last, nops, procs, stored>>

\* Bound of the model: number of requests in one run.
MaxOps == 3
\* Bound of the model: number of requests running concurrently.
MaxRequests == 3

--------------------------------------------------------------------------
\* Identifier strings and ObjectId

Hex(n) == [kind |-> "hex", oid |-> n, form |-> "lower"]
HexUpper(n) == [kind |-> "hex", oid |-> n, form |-> "upper"]
BadStr == [kind |-> "bad", oid |-> 0, form |-> "lower"]
EmptyStr == [kind |-> "empty", oid |-> 0, form |-> "lower"]
NoneId == [kind |-> "none", oid |-> 0, form |-> "lower"]

\* Optional[str] size: the sentinel stands for Python None.
NoneSize == "null"

\* ObjectId(s) raises bson.errors.InvalidId unless s is 24 hex digits.
ValidObjectId(s) == s.kind = "hex"
\* ObjectId(s) for a valid s: the letter case of the digits is lost.
ObjectId(s) == s.oid
\* str(oid): lower-case hex digits.
StrOfObjectId(n) == Hex(n)
\* Python truthiness of an Optional[str]: None and "" are falsy.
Truthy(s) == s.kind \notin {"none", "empty"}

--------------------------------------------------------------------------
\* The collections

NoDoc == [missing |-> TRUE]

\* The catalog the runs start from (the three demo products' shape; two stored).
StoredProductOids == {1, 2}
ProductOids == {1, 2, 3}
DemoProducts ==
    [n \in ProductOids |->
        IF n = 1 THEN [title |-> "Camiseta", price |-> 25, image_url |-> "img1"]
        ELSE IF n = 2 THEN [title |-> "Mochila", price |-> 40, image_url |-> NoneSize]
        ELSE NoDoc]

\* db["product"].find_one({"_id": oid})
FindProduct(prods, oid) == IF oid \in DOMAIN prods THEN prods[oid] ELSE NoDoc
\* db["cart"].find_one({"_id": oid})
FindCart(cs, oid) == IF oid \in 1..Len(cs) THEN cs[oid] ELSE NoDoc
\* db["cart"].update_one({"_id": oid}, {"$set": {"items": items}})
UpdateCartItemsEveryCart(cs, oid, items) ==
    [c \in 1..Len(cs) |-> [cs[c] EXCEPT !.items = items]]
UpdateCartItemsDropEmpty(cs, oid, items) ==
    IF items = <<>>
    THEN SubSeq(cs, 1, oid - 1) \o SubSeq(cs, oid + 1, Len(cs))
    ELSE [cs EXCEPT ![oid].items = items]
UpdateCartItems(cs, oid, items) == [cs EXCEPT ![oid].items = items]
\* create_document("cart", cart_model): insert_one, the new _id as a string.
InsertCart(cs, doc) == [carts |-> Append(cs, doc), id |-> StrOfObjectId(Len(cs) + 1)]

--------------------------------------------------------------------------
\* Pure helpers of the handlers

Max(a, b) == IF a >= b THEN a ELSE b
\* Python `x or d` on an int: 0 is falsy.
PyOr(x, d) == IF x = 0 THEN d ELSE x

\* quantity=max(1, payload.quantity or 1)
ClampAddNoFloor(q) == PyOr(q, 1)
ClampAdd(q) == Max(1, PyOr(q, 1))
\* max(1, int(payload.quantity))
ClampQtyNoFloor(q) == q
ClampQty(q) == Max(1, q)

\* it.get("product_id") == pid and it.get("size") == size
SameIdentityProductOnly(it, pid, size) == it.product_id = pid
SameIdentity(it, pid, size) == it.product_id = pid /\ it.size = size

HasIdentity(items, pid, size) ==
    \E i \in 1..Len(items) : SameIdentity(items[i], pid, size)
\* Position of the first item the scanning loop stops at.
FirstMatch(items, pid, size) ==
    CHOOSE i \in 1..Len(items) :
        /\ SameIdentity(items[i], pid, size)
        /\ \A j \in 1..(i - 1) : ~SameIdentity(items[j], pid, size)

\* CartItem(product_id=str(prod["_id"]), quantity=..., size=..., snapshots)
NewCartItem(oid, prod, payload) ==
    [product_id |-> StrOfObjectId(oid),
     quantity   |-> ClampAdd(payload.quantity),
     size       |-> payload.size,
     unit_price |-> prod.price,
     title      |-> prod.title,
     image_url  |-> prod.image_url]

\* Cart(items=[item]): checked_out defaults to False.
NewCartDoc(item) == [items |-> <<item>>, checked_out |-> FALSE]

\* The merge loop of add_to_cart and the append after it.
MergeOrAppendAlwaysAppend(items, item) == Append(items, item)
MergeOrAppendOverwrite(items, item) ==
    IF HasIdentity(items, item.product_id, item.size)
    THEN LET i == FirstMatch(items, item.product_id, item.size)
         IN [items EXCEPT ![i].quantity = item.quantity]
    ELSE Append(items, item)
MergeOrAppendRefresh(items, item) ==
    IF HasIdentity(items, item.product_id, item.size)
    THEN LET i == FirstMatch(items, item.product_id, item.size)
         IN [items EXCEPT ![i] =
                [item EXCEPT !.quantity = items[i].quantity + item.quantity]]
    ELSE Append(items, item)
MergeOrAppend(items, item) ==
    IF HasIdentity(items, item.product_id, item.size)
    THEN LET i == FirstMatch(items, item.product_id, item.size)
         IN [items EXCEPT ![i].quantity = items[i].quantity + item.quantity]
    ELSE Append(items, item)

\* items = [i for i in items if not (identity matches)]
RemoveItemsFirstOfProduct(items, pid, size) ==
    IF \E i \in 1..Len(items) : items[i].product_id = pid
    THEN LET k == CHOOSE i \in 1..Len(items) :
                    /\ items[i].product_id = pid
                    /\ \A j \in 1..(i - 1) : items[j].product_id # pid
         IN SubSeq(items, 1, k - 1) \o SubSeq(items, k + 1, Len(items))
    ELSE items
RemoveItemsByProduct(items, pid, size) ==
    SelectSeq(items, LAMBDA it : ~(it.product_id = pid))
RemoveItems(items, pid, size) ==
    SelectSeq(items, LAMBDA it : ~SameIdentity(it, pid, size))

\* The loop of update_quantity: the first matching item gets max(1, quantity).
SetItemQuantityOrDrop(items, pid, size, q) ==
    IF q <= 0 THEN RemoveItems(items, pid, size)
    ELSE IF HasIdentity(items, pid, size)
    THEN [items EXCEPT ![FirstMatch(items, pid, size)].quantity = q]
    ELSE items
SetItemQuantityUpsert(items, pid, size, q) ==
    IF HasIdentity(items, pid, size)
    THEN [items EXCEPT ![FirstMatch(items, pid, size)].quantity = ClampQty(q)]
    ELSE Append(items, [product_id |-> pid, quantity |-> ClampQty(q), size |-> size,
                        unit_price |-> 0, title |-> "Producto", image_url |-> NoneSize])
SetItemQuantity(items, pid, size, q) ==
    IF HasIdentity(items, pid, size)
    THEN [items EXCEPT ![FirstMatch(items, pid, size)].quantity = ClampQty(q)]
    ELSE items

--------------------------------------------------------------------------
\* The handlers: response and resulting "cart" collection

Response(status, detail, cart_id, cs) ==
    [status |-> status, detail |-> detail, cart_id |-> cart_id, carts |-> cs]

\* add_to_cart(payload)
AddToCart(payload, cs, prods) ==
    IF ~ValidObjectId(payload.product_id)
    THEN Response(500, "InvalidId", NoneId, cs)
    ELSE LET poid == ObjectId(payload.product_id)
             prod == FindProduct(prods, poid)
         IN IF prod = NoDoc
            THEN Response(404, "Producto no encontrado", NoneId, cs)
            ELSE LET item == NewCartItem(poid, prod, payload)
                 IN IF Truthy(payload.cart_id)
                    THEN IF ~ValidObjectId(payload.cart_id)
                         THEN Response(500, "InvalidId", NoneId, cs)
                         ELSE LET coid == ObjectId(payload.cart_id)
                                  cart == FindCart(cs, coid)
                              IN IF cart = NoDoc
                                 THEN Response(404, "Carro no encontrado", NoneId, cs)
                                 ELSE Response(200, "", StrOfObjectId(coid),
                                        UpdateCartItems(cs, coid,
                                            MergeOrAppend(cart.items, item)))
                    ELSE LET ins == InsertCart(cs, NewCartDoc(item))
                         IN Response(200, "", ins.id, ins.carts)

\* remove_from_cart(payload)
RemoveFromCart(payload, cs) ==
    IF ~ValidObjectId(payload.cart_id)
    THEN Response(500, "InvalidId", NoneId, cs)
    ELSE LET coid == ObjectId(payload.cart_id)
             cart == FindCart(cs, coid)
         IN IF cart = NoDoc
            THEN Response(404, "Carro no encontrado", NoneId, cs)
            ELSE Response(200, "", payload.cart_id,
                    UpdateCartItems(cs, coid,
                        RemoveItems(cart.items, payload.product_id, payload.size)))

\* update_quantity(payload)
UpdateQuantity(payload, cs) ==
    IF ~ValidObjectId(payload.cart_id)
    THEN Response(500, "InvalidId", NoneId, cs)
    ELSE LET coid == ObjectId(payload.cart_id)
             cart == FindCart(cs, coid)
         IN IF cart = NoDoc
            THEN Response(404, "Carro no encontrado", NoneId, cs)
            ELSE Response(200, "", payload.cart_id,
                    UpdateCartItems(cs, coid,
                        SetItemQuantity(cart.items, payload.product_id,
                                        payload.size, payload.quantity)))

--------------------------------------------------------------------------
\* Request inputs

\* Product identifier strings that resolve: the stored products, the first one
\* also spelled with upper-case hex digits.
GoodProductIds == {Hex(1), HexUpper(1), Hex(2)}
\* Product identifier strings that do not resolve: a well-formed identifier of
\* no stored product, and a string that is not 24 hex digits.
UnresolvedProductIds == {Hex(3), BadStr}
\* Cart identifier strings that resolve: every stored cart, the first one also
\* spelled with upper-case hex digits.
GoodCartIds ==
    {Hex(n) : n \in 1..Len(carts)} \cup {HexUpper(n) : n \in 1..Len(carts) \cap {1}}
\* Cart identifier strings that do not resolve: a well-formed identifier of no
\* stored cart, a string that is not 24 hex digits, and the empty string.
UnresolvedCartIds == {Hex(Len(carts) + 1), BadStr, EmptyStr}
Sizes == {NoneSize, "M"}
Quantities == {-1, 0, 1, 2}

AddPayload(cid, pid, q, s) ==
    [cart_id |-> cid, product_id |-> pid, quantity |-> q, size |-> s]
RemovePayload(cid, pid, s) ==
    [cart_id |-> cid, product_id |-> pid, size |-> s]
QtyPayload(cid, pid, s, q) ==
    [cart_id |-> cid, product_id |-> pid, size |-> s, quantity |-> q]

\* Requests whose identifiers resolve (or are absent) take every quantity and
\* size; requests with an identifier that does not resolve take the defaults.
AddPayloads ==
    {AddPayload(cid, pid, q, s) :
        cid \in GoodCartIds \cup {NoneId, EmptyStr}, pid \in GoodProductIds,
        q \in Quantities, s \in Sizes}
    \cup {AddPayload(cid, pid, 1, NoneSize) :
        cid \in GoodCartIds \cup UnresolvedCartIds \cup {NoneId},
        pid \in UnresolvedProductIds}
    \cup {AddPayload(cid, Hex(1), 1, NoneSize) : cid \in UnresolvedCartIds}
RemovePayloads ==
    {RemovePayload(cid, pid, s) :
        cid \in GoodCartIds, pid \in GoodProductIds \cup UnresolvedProductIds,
        s \in Sizes}
    \cup {RemovePayload(cid, Hex(1), NoneSize) : cid \in UnresolvedCartIds}
QtyPayloads ==
    {QtyPayload(cid, pid, s, q) :
        cid \in GoodCartIds, pid \in GoodProductIds, s \in Sizes, q \in Quantities}
    \cup {QtyPayload(cid, pid, NoneSize, 2) :
        cid \in GoodCartIds, pid \in UnresolvedProductIds}
    \cup {QtyPayload(cid, Hex(1), NoneSize, 1) : cid \in UnresolvedCartIds}

--------------------------------------------------------------------------
\* The state machine: one request at a time

Init ==
    /\ products = DemoProducts
    /\ carts = <<>>
    /\ prev = <<>>
    /\ last = [op |-> "init"]
    /\ nops = 0
    /\ procs = <<>>
    /\ stored = <<>>

Handle(op, payload, r) ==
    /\ carts' = r.carts
    /\ prev' = carts
    /\ last' = [op |-> op, payload |-> payload, status |-> r.status,
                detail |-> r.detail, cart_id |-> r.cart_id]
    /\ nops' = nops + 1
    /\ UNCHANGED <<products, procs, stored>>

add_to_cart ==
    /\ nops < MaxOps
    /\ \E payload \in AddPayloads :
        Handle("add", payload, AddToCart(payload, carts, products))

remove_from_cart ==
    /\ nops < MaxOps
    /\ \E payload \in RemovePayloads :
        Handle("remove", payload, RemoveFromCart(payload, carts))

update_quantity ==
    /\ nops < MaxOps
    /\ \E payload \in QtyPayloads :
        Handle("qty", payload, UpdateQuantity(payload, carts))

Next == add_to_cart \/ remove_from_cart \/ update_quantity

Spec == Init /\ [][Next]_vars

--------------------------------------------------------------------------
\* The same handlers while the catalog changes under them.  The product
\* collection is written by the catalog's owner, not by the cart handlers: a
\* stored product gets another title, price and image, or is deleted.

ChangedProduct == [title |-> "Camiseta v2", price |-> 30, image_url |-> "img2"]

CatalogStep(prods) ==
    /\ nops < MaxOps
    /\ products' = prods
    /\ prev' = carts
    /\ last' = [op |-> "catalog"]
    /\ nops' = nops + 1
    /\ UNCHANGED <<carts, procs, stored>>

change_product ==
    \E oid \in StoredProductOids :
        /\ products[oid] \notin {NoDoc, ChangedProduct}
        /\ CatalogStep([products EXCEPT ![oid] = ChangedProduct])

delete_product ==
    \E oid \in StoredProductOids :
        /\ products[oid] # NoDoc
        /\ CatalogStep([products EXCEPT ![oid] = NoDoc])

\* Requests on the stored carts for the stored products.
StoredCartIds == {Hex(n) : n \in 1..Len(carts)}
CatalogAddPayloads ==
    {AddPayload(cid, pid, q, s) :
        cid \in StoredCartIds \cup {NoneId}, pid \in {Hex(1), Hex(2)},
        q \in {0, 2}, s \in Sizes}
CatalogRemovePayloads ==
    {RemovePayload(cid, Hex(1), s) : cid \in StoredCartIds, s \in Sizes}
CatalogQtyPayloads ==
    {QtyPayload(cid, Hex(1), s, q) : cid \in StoredCartIds, s \in Sizes, q \in {0, 2}}

catalog_add_to_cart ==
    /\ nops < MaxOps
    /\ \E payload \in CatalogAddPayloads :
        Handle("add", payload, AddToCart(payload, carts, products))

catalog_remove_from_cart ==
    /\ nops < MaxOps
    /\ \E payload \in CatalogRemovePayloads :
        Handle("remove", payload, RemoveFromCart(payload, carts))

catalog_update_quantity ==
    /\ nops < MaxOps
    /\ \E payload \in CatalogQtyPayloads :
        Handle("qty", payload, UpdateQuantity(payload, carts))

CatalogNext ==
    \/ catalog_add_to_cart
    \/ catalog_remove_from_cart
    \/ catalog_update_quantity
    \/ change_product
    \/ delete_product

CatalogSpec == Init /\ [][CatalogNext]_vars

--------------------------------------------------------------------------
\* Requests running concurrently.  Each request is handled independently and
\* a handler is a sequence of store round trips (find_one, update_one,
\* create_document); between two round trips of one handler the others may
\* run.  A step is one round trip together with the local code that follows
\* it up to the next round trip or the response.

\* The cart the concurrent requests meet: the store after one add of product 1.
InitialItems ==
    <<NewCartItem(1, DemoProducts[1], AddPayload(NoneId, Hex(1), 1, NoneSize))>>
InitialCarts == <<[items |-> InitialItems, checked_out |-> FALSE]>>

\* An entry of a cart's history: the sequence, the request slot that wrote it
\* and the position in the history of the sequence that request had loaded
\* (by = 0, from = 0 for the sequence the cart was created with).
Entry(items, by, from) == [items |-> items, by |-> by, from |-> from]

Slots == 1..MaxRequests
Idle ==
    [pc |-> "idle", op |-> "none", payload |-> NoDoc, item |-> NoDoc, coid |-> 0,
     items |-> <<>>, loadVer |-> 0, saveVer |-> 0,
     status |-> 0, detail |-> "", cart_id |-> NoneId]
\* The handler answered: return {...} or raise HTTPException.
Answered(proc, status, detail, cart_id) ==
    [proc EXCEPT !.pc = "done", !.status = status, !.detail = detail,
                 !.cart_id = cart_id]
\* The handler found its cart and computed the new sequence in `items`.
Loaded(proc, coid, items) ==
    [proc EXCEPT !.pc = "update", !.coid = coid, !.items = items,
                 !.loadVer = Len(stored[coid])]

\* A well-formed cart identifier of no stored cart.
MissingCartId == Hex(0)
ConcAddPayloads ==
    {AddPayload(Hex(1), Hex(1), 2, NoneSize),
     AddPayload(Hex(1), Hex(1), 0, "M"),
     AddPayload(NoneId, Hex(2), 1, NoneSize),
     AddPayload(Hex(1), Hex(3), 1, NoneSize),
     AddPayload(MissingCartId, Hex(1), 1, NoneSize)}
ConcRemovePayloads ==
    {RemovePayload(Hex(1), Hex(1), NoneSize)}
ConcQtyPayloads ==
    {QtyPayload(Hex(1), Hex(1), NoneSize, -1),
     QtyPayload(Hex(1), Hex(1), "M", 2),
     QtyPayload(BadStr, Hex(1), NoneSize, 1)}

ConcInit ==
    /\ products = DemoProducts
    /\ carts = InitialCarts
    /\ prev = InitialCarts
    /\ last = [op |-> "init"]
    /\ nops = 0
    /\ procs = [p \in Slots |-> Idle]
    /\ stored = <<<<Entry(InitialItems, 0, 0)>>>>

\* Slot p takes the next request: slots are filled in order, a slot being
\* nothing but the rank of its request by first store round trip.
Arrives(p) ==
    /\ procs[p].pc = "idle"
    /\ \A r \in Slots : r < p => procs[r].pc # "idle"

\* A step of slot p that does not write the store.
ReadStep(p, proc) ==
    /\ procs' = [procs EXCEPT ![p] = proc]
    /\ prev' = carts
    /\ last' = [op |-> "conc", proc |-> p]
    /\ UNCHANGED <<products, carts, nops, stored>>

\* add_to_cart up to the cart lookup: ObjectId(product_id), find_one on the
\* product, the CartItem, the test of cart_id and ObjectId(cart_id).
AfterFindProduct(payload, prods) ==
    LET proc == [Idle EXCEPT !.op = "add", !.payload = payload]
    IN IF ~ValidObjectId(payload.product_id)
       THEN Answered(proc, 500, "InvalidId", NoneId)
       ELSE LET poid == ObjectId(payload.product_id)
                prod == FindProduct(prods, poid)
            IN IF prod = NoDoc
               THEN Answered(proc, 404, "Producto no encontrado", NoneId)
               ELSE LET withItem == [proc EXCEPT !.item = NewCartItem(poid, prod, payload)]
                    IN IF Truthy(payload.cart_id)
                       THEN IF ~ValidObjectId(payload.cart_id)
                            THEN Answered(withItem, 500, "InvalidId", NoneId)
                            ELSE [withItem EXCEPT !.pc = "find_cart",
                                                  !.coid = ObjectId(payload.cart_id)]
                       ELSE [withItem EXCEPT !.pc = "insert"]

conc_add_find_product(p) ==
    /\ Arrives(p)
    /\ \E payload \in ConcAddPayloads :
        ReadStep(p, AfterFindProduct(payload, products))

\* add_to_cart: find_one on the cart, then the merge loop on the loaded items.
conc_add_find_cart(p) ==
    /\ procs[p].pc = "find_cart"
    /\ LET cart == FindCart(carts, procs[p].coid)
       IN ReadStep(p, IF cart = NoDoc
                      THEN Answered(procs[p], 404, "Carro no encontrado", NoneId)
                      ELSE Loaded(procs[p], procs[p].coid,
                                  MergeOrAppend(cart.items, procs[p].item)))

\* add_to_cart without cart identifier: create_document and the response.
conc_add_insert(p) ==
    /\ procs[p].pc = "insert"
    /\ LET ins == InsertCart(carts, NewCartDoc(procs[p].item))
       IN /\ carts' = ins.carts
          /\ stored' = Append(stored, <<Entry(<<procs[p].item>>, 0, 0)>>)
          /\ procs' = [procs EXCEPT ![p] = Answered(procs[p], 200, "", ins.id)]
    /\ prev' = carts
    /\ last' = [op |-> "conc", proc |-> p]
    /\ UNCHANGED <<products, nops>>

\* remove_from_cart: ObjectId(cart_id), find_one on the cart, the filter.
AfterRemoveFindCart(payload, cs) ==
    LET proc == [Idle EXCEPT !.op = "remove", !.payload = payload]
    IN IF ~ValidObjectId(payload.cart_id)
       THEN Answered(proc, 500, "InvalidId", NoneId)
       ELSE LET coid == ObjectId(payload.cart_id)
                cart == FindCart(cs, coid)
            IN IF cart = NoDoc
               THEN Answered(proc, 404, "Carro no encontrado", NoneId)
               ELSE Loaded(proc, coid,
                        RemoveItems(cart.items, payload.product_id, payload.size))

conc_remove_find_cart(p) ==
    /\ Arrives(p)
    /\ \E payload \in ConcRemovePayloads :
        ReadStep(p, AfterRemoveFindCart(payload, carts))

\* update_quantity: ObjectId(cart_id), find_one on the cart, the loop.
AfterQtyFindCart(payload, cs) ==
    LET proc == [Idle EXCEPT !.op = "qty", !.payload = payload]
    IN IF ~ValidObjectId(payload.cart_id)
       THEN Answered(proc, 500, "InvalidId", NoneId)
       ELSE LET coid == ObjectId(payload.cart_id)
                cart == FindCart(cs, coid)
            IN IF cart = NoDoc
               THEN Answered(proc, 404, "Carro no encontrado", NoneId)
               ELSE Loaded(proc, coid,
                        SetItemQuantity(cart.items, payload.product_id,
                                        payload.size, payload.quantity))

conc_qty_find_cart(p) ==
    /\ Arrives(p)
    /\ \E payload \in ConcQtyPayloads :
        ReadStep(p, AfterQtyFindCart(payload, carts))

\* What a handler applies to the items it loaded.
Applied(proc, items) ==
    IF proc.op = "add" THEN MergeOrAppend(items, proc.item)
    ELSE IF proc.op = "remove"
    THEN RemoveItems(items, proc.payload.product_id, proc.payload.size)
    ELSE SetItemQuantity(items, proc.payload.product_id, proc.payload.size,
                         proc.payload.quantity)

\* {"$set": {"items": items}}: the sequence the handler computed from what it
\* had loaded, whatever the cart holds by now.
SavedItemsRecomputed(proc, cs) == Applied(proc, cs[proc.coid].items)
SavedItemsPartial(proc, cs) ==
    IF proc.items = <<>> THEN <<>>
    ELSE SubSeq(proc.items, 1, Len(proc.items) - 1)
SavedItems(proc, cs) == proc.items

\* The identifier a handler returns on success.
ReturnedCartId(proc) ==
    IF proc.op = "add" THEN StrOfObjectId(proc.coid) ELSE proc.payload.cart_id

\* update_one on the cart and the response, for the three handlers.
conc_update(p) ==
    /\ procs[p].pc = "update"
    /\ LET items == SavedItems(procs[p], carts)
           coid == procs[p].coid
       IN /\ carts' = UpdateCartItems(carts, coid, items)
          /\ stored' = [stored EXCEPT
                ![coid] = Append(@, Entry(items, p, procs[p].loadVer))]
          /\ procs' = [procs EXCEPT ![p] =
                [Answered(procs[p], 200, "", ReturnedCartId(procs[p]))
                    EXCEPT !.saveVer = Len(stored[coid]) + 1]]
    /\ prev' = carts
    /\ last' = [op |-> "conc", proc |-> p]
    /\ UNCHANGED <<products, nops>>

ConcNext ==
    \E p \in Slots :
        \/ conc_add_find_product(p)
        \/ conc_add_find_cart(p)
        \/ conc_add_insert(p)
        \/ conc_remove_find_cart(p)
        \/ conc_qty_find_cart(p)
        \/ conc_update(p)

ConcSpec == ConcInit /\ [][ConcNext]_vars

--------------------------------------------------------------------------
\* Vocabulary of the properties

\* The identity key of a stored item: its product identifier string and size.
IdentityOf(it) == <<it.product_id, it.size>>
\* The identity key a request names, compared as the strings it carries.
RequestKey == <<last.payload.product_id, last.payload.size>>
\* The last request named a cart identifier that resolved when it ran.
CartResolved ==
    /\ last.op \in {"add", "remove", "qty"}
    /\ last.payload.cart_id.kind = "hex"
    /\ last.payload.cart_id.oid \in 1..Len(prev)
\* The last request named a product identifier that resolved when it ran.
ProductResolved ==
    /\ last.payload.product_id.kind = "hex"
    /\ last.payload.product_id.oid \in StoredProductOids
TargetOid == last.payload.cart_id.oid
Before == prev[TargetOid].items
After == carts[TargetOid].items
Positions(items, key) == {i \in 1..Len(items) : IdentityOf(items[i]) = key}
\* The lower-case identifier string of the product the request names.
CanonicalKey == <<Hex(last.payload.product_id.oid), last.payload.size>>

--------------------------------------------------------------------------
\* C1: in every state reached by add-to-cart, remove-from-cart and
\* set-quantity requests handled one at a time from a store with no carts, no
\* stored cart holds two items with the same (product identifier, size) pair.
C1_UniqueIdentity ==
    \A c \in 1..Len(carts) :
        \A i, j \in 1..Len(carts[c].items) :
            i # j => IdentityOf(carts[c].items[i]) # IdentityOf(carts[c].items[j])

\* An add has merged into a row of a cart that holds several rows.
C1_Witness ==
    /\ last.op = "add" /\ last.status = 200 /\ CartResolved
    /\ Positions(Before, CanonicalKey) # {}
    /\ Len(After) >= 2

\* C2: an add to a stored cart that already holds an item (p, s) with quantity
\* n raises that item's quantity to n + max(1, extra), for every integer
\* extra, keeps the number of items and the item's position, and leaves every
\* other item as it was.
C2_AddMerges ==
    (last.op = "add" /\ last.status = 200 /\ CartResolved) =>
        \A i \in Positions(Before, RequestKey) :
            /\ Len(After) = Len(Before)
            /\ After[i] = [Before[i] EXCEPT
                    !.quantity = Before[i].quantity + Max(1, last.payload.quantity)]
            /\ \A j \in 1..Len(Before) : j # i => After[j] = Before[j]

\* A merge with a non-positive extra into the second row of a cart.
C2_Witness ==
    /\ last.op = "add" /\ last.status = 200 /\ CartResolved
    /\ last.payload.quantity <= 0
    /\ 2 \in Positions(Before, RequestKey)

\* C3: an add that supplies no cart identifier, for an existing product, any
\* integer q and any size s, creates a cart holding exactly one item (P, s)
\* with quantity max(1, q) and checked_out false; the identifier returned is
\* the new cart's, is the identifier of no cart stored before, and no cart
\* stored before is changed.
C3_AddCreates ==
    (last.op = "add" /\ last.payload.cart_id = NoneId /\ ProductResolved) =>
        /\ last.status = 200
        /\ Len(carts) = Len(prev) + 1
        /\ \A c \in 1..Len(prev) : carts[c] = prev[c]
        /\ last.cart_id.kind = "hex"
        /\ last.cart_id.oid = Len(carts)
        /\ \A c \in 1..Len(prev) : last.cart_id.oid # c
        /\ LET new == carts[Len(carts)]
           IN /\ Len(new.items) = 1
              /\ IdentityOf(new.items[1]) = CanonicalKey
              /\ new.items[1].quantity = Max(1, last.payload.quantity)
              /\ new.checked_out = FALSE

\* A second cart was created by an add with a negative quantity.
C3_Witness ==
    /\ last.op = "add" /\ last.payload.cart_id = NoneId /\ last.status = 200
    /\ last.payload.quantity < 0
    /\ Len(prev) >= 1
    /\ Len(carts) = Len(prev) + 1

\* C4 as stated: an add to a stored cart that holds no item with identity
\* (p, s) appends one new last item for product p with size s and quantity
\* max(1, q) to the previous sequence.  (The identity of the stored rows is
\* compared with the identifier string p of the request, as the claim puts it;
\* the appended row may carry the product's identifier in any spelling.)
C4_AppendsWhenKeyAbsent ==
    (last.op = "add" /\ last.status = 200 /\ CartResolved
        /\ Positions(Before, RequestKey) = {}) =>
        /\ Len(After) = Len(Before) + 1
        /\ SubSeq(After, 1, Len(Before)) = Before
        /\ After[Len(After)].product_id.oid = last.payload.product_id.oid
        /\ After[Len(After)].size = last.payload.size
        /\ After[Len(After)].quantity = Max(1, last.payload.quantity)

\* C4 amended: an add to a stored cart that holds no item with identity
\* (c, s), c being the lower-case identifier string str(ObjectId(p)) of the
\* product that p resolves to, appends one new last item with identity (c, s)
\* and quantity max(1, q) to the previous sequence; an item of the same
\* product with another size (null against non-null included) is kept as a
\* separate row.
C4_AppendsWhenCanonicalKeyAbsent ==
    (last.op = "add" /\ last.status = 200 /\ CartResolved
        /\ Positions(Before, CanonicalKey) = {}) =>
        /\ Len(After) = Len(Before) + 1
        /\ SubSeq(After, 1, Len(Before)) = Before
        /\ IdentityOf(After[Len(After)]) = CanonicalKey
        /\ After[Len(After)].quantity = Max(1, last.payload.quantity)

\* A row was appended for a product of which the cart already held another
\* size, the request spelling the identifier in upper case.
C4_Witness ==
    /\ last.op = "add" /\ last.status = 200 /\ CartResolved
    /\ last.payload.product_id = HexUpper(1)
    /\ Positions(Before, CanonicalKey) = {}
    /\ \E i \in 1..Len(Before) :
        /\ Before[i].product_id = Hex(1)
        /\ Before[i].size # last.payload.size
    /\ Len(After) = Len(Before) + 1

\* C5: whatever integer quantities the requests carry (zero and negative
\* included), every item of every stored cart has quantity >= 1.
C5_QuantityPositive ==
    \A c \in 1..Len(carts) :
        \A i \in 1..Len(carts[c].items) : carts[c].items[i].quantity >= 1

\* A set-quantity with a negative quantity has hit a stored row.
C5_Witness ==
    /\ last.op = "qty" /\ last.status = 200 /\ CartResolved
    /\ last.payload.quantity < 0
    /\ Positions(Before, RequestKey) # {}
\* C6: set-quantity on a stored cart that holds an item (p, s) sets that
\* item's quantity to max(1, k) for every integer k; for k <= 0 the item stays
\* in the cart with quantity 1 and is not removed.
C6_SetQuantityFloors ==
    (last.op = "qty" /\ CartResolved) =>
        /\ last.status = 200
        /\ \A i \in Positions(Before, RequestKey) :
            /\ i \in Positions(After, RequestKey)
            /\ After[i].quantity = Max(1, last.payload.quantity)
            /\ last.payload.quantity <= 0 => After[i].quantity = 1

\* A set-quantity with k <= 0 has hit a row whose quantity was above 1.
C6_Witness ==
    /\ last.op = "qty" /\ last.status = 200 /\ CartResolved
    /\ last.payload.quantity <= 0
    /\ \E i \in Positions(Before, RequestKey) : Before[i].quantity > 1

\* C7: set-quantity never creates or deletes rows: the cart keeps the same
\* number of items with the same identities in the same order, only the
\* quantity of the item (p, s) may differ, and when the cart holds no item
\* (p, s) the sequence is unchanged and the call still succeeds, returning the
\* cart identifier.
C7_SetQuantityKeepsRows ==
    (last.op = "qty" /\ CartResolved) =>
        /\ last.status = 200
        /\ last.cart_id = last.payload.cart_id
        /\ Len(After) = Len(Before)
        /\ \A j \in 1..Len(Before) :
            /\ After[j] = [Before[j] EXCEPT !.quantity = After[j].quantity]
            /\ IdentityOf(Before[j]) # RequestKey => After[j] = Before[j]
        /\ Positions(Before, RequestKey) = {} => After = Before

\* A set-quantity named an identity that a non-empty cart does not hold.
C7_Witness ==
    /\ last.op = "qty" /\ last.status = 200 /\ CartResolved
    /\ Len(Before) >= 1
    /\ Positions(Before, RequestKey) = {}
    /\ ProductResolved

\* C8: remove is idempotent: handling the same remove request a second time,
\* right after the first, succeeds and leaves the store as the first left it.
C8_RemoveIdempotent ==
    (last.op = "remove" /\ last.status = 200) =>
        LET second == RemoveFromCart(last.payload, carts)
        IN /\ second.status = 200
           /\ second.cart_id = last.cart_id
           /\ second.carts = carts

\* A remove has deleted a row and left another row of the same product.
C8_Witness ==
    /\ last.op = "remove" /\ last.status = 200 /\ CartResolved
    /\ Len(After) < Len(Before)
    /\ \E i \in 1..Len(After) : After[i].product_id = last.payload.product_id

\* The items of a sequence whose identity is not key, in their order.
Others(items, key) == {i \in 1..Len(items) : IdentityOf(items[i]) # key}
NthOther(items, key, k) ==
    CHOOSE i \in Others(items, key) :
        Cardinality({j \in Others(items, key) : j < i}) = k - 1

\* C9: remove on a stored cart succeeds and returns the cart identifier it was
\* given; afterwards the cart holds no item (p, s), every item with another
\* identity (the same product with another size included) remains, unchanged
\* and in the same relative order; when no item has identity (p, s) the
\* sequence is unchanged.
C9_RemoveDeletesOnlyKey ==
    (last.op = "remove" /\ CartResolved) =>
        /\ last.status = 200
        /\ last.cart_id = last.payload.cart_id
        /\ Positions(After, RequestKey) = {}
        /\ Len(After) = Cardinality(Others(Before, RequestKey))
        /\ \A k \in 1..Len(After) : After[k] = Before[NthOther(Before, RequestKey, k)]
        /\ Positions(Before, RequestKey) = {} => After = Before

\* A remove has deleted the first row of a cart that also held the same
\* product with another size.
C9_Witness ==
    /\ last.op = "remove" /\ last.status = 200 /\ CartResolved
    /\ 1 \in Positions(Before, RequestKey)
    /\ Len(Before) >= 2
    /\ Before[2].product_id = last.payload.product_id
    /\ Len(After) = Len(Before) - 1

\* C10: an add whose product identifier does not resolve to a stored product
\* ends in the product NotFound outcome, with or without a cart identifier;
\* it creates no cart and changes no stored cart.
C10_UnresolvedProductNotFound ==
    (last.op = "add" /\ ~ProductResolved) =>
        /\ last.status = 404
        /\ last.detail = "Producto no encontrado"
        /\ carts = prev
\* The last request named a cart identifier, and it did not resolve.  (An add
\* whose cart_id is absent or empty names none: see NoCartIdSupplied.)
CartUnresolved ==
    /\ last.op \in {"add", "remove", "qty"}
    /\ last.op = "add" => last.payload.cart_id \notin {NoneId, EmptyStr}
    /\ ~CartResolved

\* C11: add-to-cart, remove-from-cart and set-quantity, called with a cart
\* identifier that does not resolve to a stored cart, end in the NotFound
\* outcome (no generic server error, no success), create no cart and leave
\* every stored cart unchanged.
C11_UnresolvedCartNotFound ==
    CartUnresolved =>
        /\ last.status = 404
        /\ carts = prev

\* The last request carried no cart identifier: the field was absent or the
\* empty string (what the test `if payload.cart_id` of add_to_cart takes as
\* no identifier).
NoCartIdSupplied == last.payload.cart_id \in {NoneId, EmptyStr}

\* C15: a cart comes into existence only through an add that supplies no cart
\* identifier (remove, set-quantity and add with a cart identifier create
\* none), and a cart identifier that resolves keeps resolving, to the same
\* cart, also after remove has emptied the cart.
C15_Lifecycle ==
    /\ Len(carts) >= Len(prev)
    /\ Len(carts) > Len(prev) =>
        /\ last.op = "add"
        /\ last.status = 200
        /\ NoCartIdSupplied
        /\ Len(carts) = Len(prev) + 1
    /\ (last.op \in {"remove", "qty"} \/ (last.op = "add" /\ ~NoCartIdSupplied)) =>
        Len(carts) = Len(prev)
    /\ CartResolved => last.payload.cart_id.oid \in 1..Len(carts)

\* A request on a cart that an earlier remove had emptied succeeded.
C15_Witness ==
    /\ last.op \in {"remove", "qty", "add"} /\ last.status = 200 /\ CartResolved
    /\ Before = <<>>
    /\ Len(carts) = Len(prev)

\* The cart a successful request worked on: the one its identifier resolves
\* to, or the one it created.
WorkedOn == IF CartResolved THEN TargetOid ELSE Len(carts)

\* C16: a successful add, remove or set-quantity on cart X changes at most the
\* item sequence of X: the item sequences of the other carts, the checked_out
\* flag of every cart (false in every reachable state) and the product
\* catalog stay as they were.
C16_Frame ==
    /\ products = DemoProducts
    /\ \A c \in 1..Len(carts) : carts[c].checked_out = FALSE
    /\ (last.op \in {"add", "remove", "qty"} /\ last.status = 200) =>
        \A c \in 1..Len(prev) :
            /\ c \in 1..Len(carts)
            /\ carts[c].checked_out = prev[c].checked_out
            /\ c # WorkedOn => carts[c] = prev[c]

\* A successful request changed the items of one cart while another cart with
\* other items was stored.
C16_Witness ==
    /\ last.op \in {"add", "remove", "qty"} /\ last.status = 200 /\ CartResolved
    /\ After # Before
    /\ \E c \in 1..Len(prev) : c # TargetOid /\ prev[c].items # Before

\* The remove request for the cart, product identifier and size of the last
\* (add) request, handled right after it.
RemoveAfterAdd ==
    RemoveFromCart(RemovePayload(last.payload.cart_id, last.payload.product_id,
                                 last.payload.size), carts)

\* C18: on a stored cart with no item (p, s), Add(C, p, q, s) followed by
\* Remove(C, p, s) restores the original item sequence; on a cart that holds
\* an item (p, s) the two calls delete the whole row.
C18_AddRemoveRoundTrip ==
    (last.op = "add" /\ last.status = 200 /\ CartResolved) =>
        /\ RemoveAfterAdd.status = 200
        /\ Positions(Before, RequestKey) = {} => RemoveAfterAdd.carts = prev
        /\ Positions(Before, RequestKey) # {} =>
            LET left == RemoveAfterAdd.carts[TargetOid].items
            IN /\ Positions(left, RequestKey) = {}
               /\ Len(left) = Len(Before) - 1

\* The last request was an add whose product identifier did not resolve.
ProductUnresolved == last.op = "add" /\ ~ProductResolved

\* C19: add resolves the product before the cart: with both identifiers
\* unresolved the outcome is the product NotFound, with the product resolved
\* and the cart identifier unresolved it is the cart NotFound, and both reach
\* the caller as NotFound, not as a generic failure.
C19_ProductBeforeCart ==
    (last.op = "add" /\ CartUnresolved) =>
        /\ last.status = 404
        /\ ProductUnresolved => last.detail = "Producto no encontrado"
        /\ ~ProductUnresolved => last.detail = "Carro no encontrado"
\* The snapshot fields of a cart item, and the values a product holds for them.
SnapshotOf(it) == <<it.unit_price, it.title, it.image_url>>
ProductValues(prod) == <<prod.price, prod.title, prod.image_url>>
\* Row j of cart c did not exist, under its identity, before the last step.
NewRow(c, j) ==
    \/ c > Len(prev)
    \/ Positions(prev[c].items, IdentityOf(carts[c].items[j])) = {}

\* C13: the unit price, title and image URL of a cart item are the product's
\* values at the moment the add that created the row ran, and no later step
\* changes them: not a change or deletion of the product in the catalog, not
\* an add that merges into the row, not a set-quantity on the row.
C13_SnapshotsFixed ==
    \A c \in 1..Len(carts) :
        \A j \in 1..Len(carts[c].items) :
            IF NewRow(c, j)
            THEN /\ last.op = "add"
                 /\ last.status = 200
                 /\ SnapshotOf(carts[c].items[j]) =
                        ProductValues(products[carts[c].items[j].product_id.oid])
            ELSE \A i \in Positions(prev[c].items, IdentityOf(carts[c].items[j])) :
                    SnapshotOf(carts[c].items[j]) = SnapshotOf(prev[c].items[i])

\* An add has merged into, or a set-quantity has hit, a row whose product has
\* since been changed in the catalog.
C13_Witness ==
    /\ last.op \in {"add", "qty"} /\ last.status = 200 /\ CartResolved
    /\ \E i \in Positions(Before, RequestKey) :
        /\ After[i].quantity # Before[i].quantity
        /\ products[Before[i].product_id.oid] = ChangedProduct
        /\ SnapshotOf(After[i]) # ProductValues(ChangedProduct)
\* Slots p and q both ran an add on the same stored cart to success, each
\* loaded the cart before the other saved, and q saved after p.
RacedAdds(p, q) ==
    /\ p # q
    /\ procs[p].op = "add" /\ procs[q].op = "add"
    /\ procs[p].pc = "done" /\ procs[q].pc = "done"
    /\ procs[p].status = 200 /\ procs[q].status = 200
    /\ procs[p].saveVer > 0 /\ procs[q].saveVer > 0
    /\ procs[p].coid = procs[q].coid
    /\ procs[p].loadVer < procs[q].saveVer
    /\ procs[q].loadVer < procs[p].saveVer
    /\ procs[p].saveVer < procs[q].saveVer
\* The quantity a sequence holds under an identity key (0 when it holds none).
QtyOf(items, key) ==
    IF Positions(items, key) = {} THEN 0
    ELSE items[CHOOSE i \in Positions(items, key) : TRUE].quantity
\* The quantity an add request contributes under an identity key.
Contribution(proc, key) ==
    IF IdentityOf(proc.item) = key THEN Max(1, proc.payload.quantity) ELSE 0

\* C12: load-then-save is not atomic.  When two adds on the same cart have
\* both loaded before either saved, and both succeeded, the sequence written
\* by the later save is the later add applied to what it had loaded: under
\* the identity of the earlier add it holds the loaded quantity plus the later
\* add's own contribution, without the earlier add's increment or row; and
\* when that save is the cart's last, this is the stored sequence.
C12_LaterSaveWins ==
    \A p, q \in DOMAIN procs :
        RacedAdds(p, q) =>
            LET h == stored[procs[q].coid]
                loaded == h[procs[q].loadVer].items
                saved == h[procs[q].saveVer].items
                key == IdentityOf(procs[p].item)
            IN /\ procs[q].loadVer < procs[p].saveVer
               /\ QtyOf(saved, key) = QtyOf(loaded, key) + Contribution(procs[q], key)
               /\ procs[q].saveVer = Len(h) => carts[procs[q].coid].items = saved

\* Two adds raced, both answered success, and the stored sequence holds less
\* under the earlier add's identity than the earlier add had saved: its
\* increment, or its appended row, is gone.
C12_Witness ==
    \E p, q \in DOMAIN procs :
        /\ RacedAdds(p, q)
        /\ \A r \in DOMAIN procs : procs[r].pc = "done"
        /\ LET h == stored[procs[q].coid]
               key == IdentityOf(procs[p].item)
           IN /\ procs[q].saveVer = Len(h)
              /\ QtyOf(carts[procs[q].coid].items, key)
                    < QtyOf(h[procs[p].saveVer].items, key)

\* C14: no partial application.  In every state, between the steps of
\* concurrent requests included, the stored sequence of a cart is the one the
\* cart was created with or the complete result of one whole add, remove or
\* set-quantity applied to a sequence stored earlier for that cart; a request
\* that ends in NotFound or a generic failure, and a step that does not end
\* its request in success, change no stored cart.
C14_NoPartialApplication ==
    /\ Len(stored) = Len(carts)
    /\ \A c \in 1..Len(carts) :
        LET h == stored[c]
        IN /\ carts[c].items = h[Len(h)].items
           /\ \A v \in 1..Len(h) :
                \/ h[v].by = 0 /\ v = 1
                \/ /\ h[v].by \in DOMAIN procs
                   /\ h[v].from \in 1..(v - 1)
                   /\ procs[h[v].by].pc = "done"
                   /\ procs[h[v].by].status = 200
                   /\ h[v].items = Applied(procs[h[v].by], h[h[v].from].items)
    /\ last.op = "conc" =>
        (~(procs[last.proc].pc = "done" /\ procs[last.proc].status = 200)
            => carts = prev)

\* A save of a request that raced with another one has landed while a third
\* outcome, a failed request, is also present.
C14_Witness ==
    /\ \E p \in DOMAIN procs : procs[p].pc = "done" /\ procs[p].status # 200
    /\ \E c \in 1..Len(carts) :
        /\ Len(stored[c]) >= 2
        /\ stored[c][Len(stored[c])].from < Len(stored[c]) - 1
        /\ carts[c].items # stored[c][1].items

\* C17: the cart invariants survive the race: under every interleaving of the
\* load and save steps of concurrent add, remove and set-quantity requests on
\* one cart, every item sequence ever stored has pairwise distinct (product
\* identifier, size) pairs and every quantity >= 1.
C17_RaceKeepsInvariants ==
    \A c \in 1..Len(stored) :
        \A v \in 1..Len(stored[c]) :
            LET items == stored[c][v].items
            IN /\ \A i, j \in 1..Len(items) :
                    i # j => IdentityOf(items[i]) # IdentityOf(items[j])
               /\ \A i \in 1..Len(items) : items[i].quantity >= 1
               /\ v = Len(stored[c]) => carts[c].items = items

\* An add and a set-quantity with a negative quantity raced on one cart, each
\* loading before the other saved, and both saved.
C17_Witness ==
    \E p, q \in DOMAIN procs :
        /\ procs[p].op = "add" /\ procs[q].op = "qty"
        /\ procs[q].payload.quantity < 0
        /\ procs[p].saveVer > 0 /\ procs[q].saveVer > 0
        /\ procs[p].coid = procs[q].coid
        /\ procs[p].loadVer < procs[q].saveVer
        /\ procs[q].loadVer < procs[p].saveVer

====
